---- MODULE Spec2Model ----
(***************************************************************************)
(* A model of the helper functions of functions.py: the date-window        *)
(* selector (get_date_range, get_matching_entries), the grouped            *)
(* differencer (calculate_differences), the multi-series plotter           *)
(* (plot_differences) and the word filter (find_word).                     *)
(*                                                                         *)
(* The functions are stateless.  A call is modelled as a frame: `call`     *)
(* holds the function's name and arguments, `loc` its local variables,     *)
(* `pc` its position and `ret` what it returned or raised.  `data` is the  *)
(* caller's table, passed by reference, and `surface` is pyplot's current  *)
(* drawing surface, the only state shared between calls.                   *)
(*                                                                         *)
(* Strings are sequences of one-character strings, dates are records       *)
(* [year, month, day] as datetime stores them, and tables are sequences of *)
(* row records in table order.                                             *)
(***************************************************************************)
EXTENDS Integers, Sequences, FiniteSets, TLC

VARIABLES data, call, pc, loc, ret, surface

vars == <<data, call, pc, loc, ret, surface>>

(***************************************************************************)
(* Bounds of the model.                                                    *)
(***************************************************************************)
MaxOffset == 8
MaxDates == 2
MaxPolicyRows == 2

(***************************************************************************)
(* Generic helpers.                                                        *)
(***************************************************************************)
NoCall == [fn |-> "none"]
NoLocals == [none |-> TRUE]
NoReturn == [kind |-> "none"]
Returned(v) == [kind |-> "value", value |-> v]
Raised(e) == [kind |-> "raise", exc |-> e]

SeqsUpTo(S, n) == UNION {[1..k -> S] : k \in 0..n}

Range(s) == {s[i] : i \in 1..Len(s)}

(***************************************************************************)
(* datetime: the proleptic Gregorian calendar, as the standard library     *)
(* computes it.  A date plus a timedelta goes through the day ordinal.     *)
(***************************************************************************)
IsLeap(y) == (y % 4 = 0) /\ ((y % 100 # 0) \/ (y % 400 = 0))

DaysInMonth(y, m) ==
    IF m = 2 THEN (IF IsLeap(y) THEN 29 ELSE 28)
    ELSE IF m \in {4, 6, 9, 11} THEN 30 ELSE 31

DaysBeforeYear(y) ==
    LET y1 == y - 1
    IN  y1 * 365 + (y1 \div 4) - (y1 \div 100) + (y1 \div 400)

RECURSIVE DaysBeforeMonth(_, _)
DaysBeforeMonth(y, m) ==
    IF m = 1 THEN 0 ELSE DaysBeforeMonth(y, m - 1) + DaysInMonth(y, m - 1)

Date(y, m, d) == [year |-> y, month |-> m, day |-> d]

ToOrdinal(dt) ==
    DaysBeforeYear(dt.year) + DaysBeforeMonth(dt.year, dt.month) + dt.day

\* datetime's _ord2ymd: 400-, 100-, 4- and 1-year cycles, then an estimate of
\* the month that is corrected when it is one too large.
FromOrdinal(o) ==
    LET n0 == o - 1
        n400 == n0 \div 146097
        r400 == n0 % 146097
        n100 == r400 \div 36524
        r100 == r400 % 36524
        n4 == r100 \div 1461
        r4 == r100 % 1461
        n1 == r4 \div 365
        n == r4 % 365
        year == n400 * 400 + 1 + n100 * 100 + n4 * 4 + n1
    IN  IF n1 = 4 \/ n100 = 4
        THEN Date(year - 1, 12, 31)
        ELSE LET est == (n + 50) \div 32
                 pre == DaysBeforeMonth(year, est)
                 month == IF pre > n THEN est - 1 ELSE est
                 preceding == DaysBeforeMonth(year, month)
             IN  Date(year, month, n - preceding + 1)

\* chosen_date +/- datetime.timedelta(days=k)
AddDays(dt, k) == FromOrdinal(ToOrdinal(dt) + k)

(***************************************************************************)
(* datetime.datetime.strptime(date_str, '%Y-%m-%d').  The format compiles  *)
(* to  (\d\d\d\d)-(1[0-2]|0[1-9]|[1-9])-(3[01]|[12]\d|0[1-9]|[1-9]| [1-9]) *)
(* which must consume the whole string; then the date must exist.  Every   *)
(* failure is a ValueError.                                                *)
(***************************************************************************)
Digits == <<"0", "1", "2", "3", "4", "5", "6", "7", "8", "9">>

IsDigit(c) == \E i \in 1..10 : Digits[i] = c

DigitVal(c) == (CHOOSE i \in 1..10 : Digits[i] = c) - 1

RECURSIVE SplitDash(_)
SplitDash(s) ==
    IF \A i \in 1..Len(s) : s[i] # "-"
    THEN <<s>>
    ELSE LET i == CHOOSE j \in 1..Len(s) :
                      s[j] = "-" /\ \A k \in 1..(j - 1) : s[k] # "-"
         IN  <<SubSeq(s, 1, i - 1)>> \o SplitDash(SubSeq(s, i + 1, Len(s)))

RECURSIVE Number(_)
Number(f) ==
    IF f = <<>> THEN 0
    ELSE Number(SubSeq(f, 1, Len(f) - 1)) * 10 + DigitVal(f[Len(f)])

AllDigits(f) == \A i \in 1..Len(f) : IsDigit(f[i])

YearField(f) == Len(f) = 4 /\ AllDigits(f)

MonthField(f) ==
    \/ Len(f) = 2 /\ f[1] = "1" /\ f[2] \in {"0", "1", "2"}
    \/ Len(f) = 2 /\ f[1] = "0" /\ IsDigit(f[2]) /\ f[2] # "0"
    \/ Len(f) = 1 /\ IsDigit(f[1]) /\ f[1] # "0"

DayField(f) ==
    \/ Len(f) = 2 /\ f[1] = "3" /\ f[2] \in {"0", "1"}
    \/ Len(f) = 2 /\ f[1] \in {"1", "2"} /\ IsDigit(f[2])
    \/ Len(f) = 2 /\ f[1] = "0" /\ IsDigit(f[2]) /\ f[2] # "0"
    \/ Len(f) = 1 /\ IsDigit(f[1]) /\ f[1] # "0"
    \/ Len(f) = 2 /\ f[1] = " " /\ IsDigit(f[2]) /\ f[2] # "0"

DayNumber(f) == IF f[1] = " " THEN DigitVal(f[2]) ELSE Number(f)

\* The outcome of a step that may raise.
Ok(v) == [ok |-> TRUE, value |-> v]
Fail(e) == [ok |-> FALSE, exc |-> e]

ParseError == Fail("ValueError")

Strptime(s) ==
    LET fs == SplitDash(s)
    IN  IF Len(fs) # 3 THEN ParseError
        ELSE IF ~(YearField(fs[1]) /\ MonthField(fs[2]) /\ DayField(fs[3]))
        THEN ParseError
        ELSE LET y == Number(fs[1])
                 m == Number(fs[2])
                 d == DayNumber(fs[3])
             IN  IF y < 1 \/ d > DaysInMonth(y, m) THEN ParseError
                 ELSE Ok(Date(y, m, d))

(***************************************************************************)
(* get_date_range(chosen_date, days)                                       *)
(***************************************************************************)
WindowLen == 7

get_date_range_by_days(chosen_date, days) ==
    LET start_date == AddDays(chosen_date, 0 - days)
    IN  [i \in 1..days |-> AddDays(start_date, i - 1)]

get_date_range(chosen_date, days) ==
    LET start_date == AddDays(chosen_date, 0 - days)
    IN  [i \in 1..WindowLen |-> AddDays(start_date, i - 1)]

(***************************************************************************)
(* get_matching_entries(dates_of_interest, data, date_column, days)        *)
(***************************************************************************)
\* data[data[date_column].isin(date_range)]
select_isin(tbl, date_range) ==
    SelectSeq(tbl, LAMBDA row : row.date \in Range(date_range))

\* pd.concat([matching_entries, matching_df], ignore_index=True)
concat_dedup(matching_entries, matching_df) ==
    matching_entries
        \o SelectSeq(matching_df, LAMBDA row : row \notin Range(matching_entries))

concat(matching_entries, matching_df) == matching_entries \o matching_df

\* One pass of the loop body, lines 187-191: the new matching_entries, or the
\* ValueError of strptime.
gme_iteration_skip(matching_entries, date_str, tbl, days) ==
    LET date_obj == Strptime(date_str)
    IN  IF ~date_obj.ok THEN Ok(matching_entries)
        ELSE Ok(concat(matching_entries,
                       select_isin(tbl, get_date_range(date_obj.value, days))))

gme_iteration(matching_entries, date_str, tbl, days) ==
    LET date_obj == Strptime(date_str)
    IN  IF ~date_obj.ok THEN date_obj
        ELSE Ok(concat(matching_entries,
                       select_isin(tbl, get_date_range(date_obj.value, days))))

(***************************************************************************)
(* Inputs of the date-window selector.                                     *)
(***************************************************************************)
Str_2023_05_01 == <<"2", "0", "2", "3", "-", "0", "5", "-", "0", "1">>
Str_2023_05_03 == <<"2", "0", "2", "3", "-", "0", "5", "-", "0", "3">>
Str_2024_03_01 == <<"2", "0", "2", "4", "-", "0", "3", "-", "0", "1">>
Str_2023_5_1 == <<"2", "0", "2", "3", "-", "5", "-", "1">>
Str_Slashes == <<"2", "0", "2", "3", "/", "0", "5", "/", "0", "1">>
Str_Feb30 == <<"2", "0", "2", "3", "-", "0", "2", "-", "3", "0">>

DateStrs ==
    {Str_2023_05_01, Str_2023_05_03, Str_2024_03_01, Str_2023_5_1,
     Str_Slashes, Str_Feb30}

RefDates ==
    {Date(2023, 5, 1), Date(2023, 3, 1), Date(2024, 3, 1), Date(2024, 2, 20),
     Date(2023, 12, 31), Date(1900, 3, 1), Date(2000, 12, 31)}

Offsets == (0 - MaxOffset)..MaxOffset

PolicyDates ==
    {Date(2023, 4, 30), Date(2023, 5, 1), Date(2024, 2, 29)}

PolicyTables ==
    {[i \in 1..Len(ds) |-> [id |-> i, date |-> ds[i]]] :
        ds \in SeqsUpTo(PolicyDates, MaxPolicyRows)}

WindowDays == {0 - 1, 2, 7}

(***************************************************************************)
(* The date-window selector as a state machine.                            *)
(***************************************************************************)
InitWindow ==
    /\ data \in PolicyTables
    /\ call = NoCall
    /\ pc = "idle"
    /\ loc = NoLocals
    /\ ret = NoReturn
    /\ surface = <<>>

CallGetDateRange(chosen_date, days) ==
    /\ pc = "idle"
    /\ call' = [fn |-> "get_date_range", chosen_date |-> chosen_date,
                days |-> days]
    /\ loc' = NoLocals
    /\ pc' = "done"
    /\ ret' = Returned(get_date_range(chosen_date, days))
    /\ UNCHANGED <<data, surface>>

CallGetMatchingEntries(dates_of_interest, days) ==
    /\ pc = "idle"
    /\ call' = [fn |-> "get_matching_entries",
                dates_of_interest |-> dates_of_interest,
                data |-> data, days |-> days]
    /\ loc' = [i |-> 1, matching_entries |-> <<>>]
    /\ pc' = "running"
    /\ ret' = NoReturn
    /\ UNCHANGED <<data, surface>>

GmeIter ==
    /\ pc = "running"
    /\ call.fn = "get_matching_entries"
    /\ loc.i <= Len(call.dates_of_interest)
    /\ LET r == gme_iteration(loc.matching_entries,
                              call.dates_of_interest[loc.i], data, call.days)
       IN  IF ~r.ok
           THEN /\ pc' = "done"
                /\ ret' = Raised(r.exc)
                /\ loc' = loc
           ELSE /\ pc' = pc
                /\ ret' = ret
                /\ loc' = [i |-> loc.i + 1, matching_entries |-> r.value]
    /\ UNCHANGED <<data, call, surface>>

GmeReturn ==
    /\ pc = "running"
    /\ call.fn = "get_matching_entries"
    /\ loc.i > Len(call.dates_of_interest)
    /\ pc' = "done"
    /\ ret' = Returned(loc.matching_entries)
    /\ UNCHANGED <<data, call, loc, surface>>

NextWindow ==
    \/ \E chosen_date \in RefDates, days \in Offsets :
          CallGetDateRange(chosen_date, days)
    \/ \E dates_of_interest \in SeqsUpTo(DateStrs, MaxDates),
          days \in WindowDays :
          CallGetMatchingEntries(dates_of_interest, days)
    \/ GmeIter
    \/ GmeReturn

SpecWindow == InitWindow /\ [][NextWindow]_vars

(***************************************************************************)
(* calculate_differences(data, index_column, value_column)                 *)
(***************************************************************************)
\* df[name] / index.get_level_values(name): one column, in table order.
Column(tbl, name) == [i \in 1..Len(tbl) |-> tbl[i][name]]

RECURSIVE Unique(_)
Unique(s) ==
    IF s = <<>> THEN <<>>
    ELSE LET front == Unique(SubSeq(s, 1, Len(s) - 1))
         IN  IF s[Len(s)] \in Range(front) THEN front
             ELSE Append(front, s[Len(s)])

\* data.index.get_level_values(index_column).unique()
index_unique(tbl) == Unique(Column(tbl, "key"))

\* data[data.index.get_level_values(index_column) == value]
first_run(tbl, value) ==
    LET start == CHOOSE i \in 1..Len(tbl) :
                     tbl[i].key = value /\ \A j \in 1..(i - 1) : tbl[j].key # value
        stop == CHOOSE i \in start..Len(tbl) :
                    /\ \A j \in start..i : tbl[j].key = value
                    /\ (i = Len(tbl) \/ tbl[i + 1].key # value)
    IN  SubSeq(tbl, start, stop)

group_subset(tbl, value) == SelectSeq(tbl, LAMBDA row : row.key = value)

\* np.diff(column)
np_diff(col) == [i \in 1..(Len(col) - 1) |-> col[i + 1] - col[i]]

\* dict[key] = v
SetItem(d, key, v) ==
    [k \in DOMAIN d \cup {key} |-> IF k = key THEN v ELSE d[k]]

EmptyDict == [k \in {} |-> <<>>]

Unbound == [bound |-> FALSE]
Bound(v) == [bound |-> TRUE, value |-> v]

\* One pass of the loop body, lines 241-243, over the locals.
cd_iteration_first_subset(l, tbl, value) ==
    LET subset == group_subset(tbl, value)
    IN  [differences |->
             SetItem(l.differences, value, np_diff(Column(subset, "value"))),
         differences_fatalities |->
             SetItem(l.differences_fatalities, value,
                     np_diff(Column(subset, "fatalities"))),
         subset |-> IF l.subset.bound THEN l.subset ELSE Bound(subset)]

cd_iteration(l, tbl, value) ==
    LET subset == group_subset(tbl, value)
    IN  [differences |->
             SetItem(l.differences, value, np_diff(Column(subset, "value"))),
         differences_fatalities |->
             SetItem(l.differences_fatalities, value,
                     np_diff(Column(subset, "fatalities"))),
         subset |-> Bound(subset)]

RECURSIVE cd_loop(_, _, _)
cd_loop(l, tbl, unique_values) ==
    IF unique_values = <<>> THEN l
    ELSE cd_loop(cd_iteration(l, tbl, Head(unique_values)), tbl,
                 Tail(unique_values))

\* The whole function.  `subset` is assigned only inside the loop: line 245
\* reads it unbound when the loop ran zero times.
calculate_differences(tbl) ==
    LET unique_values == index_unique(tbl)
        l == cd_loop([differences |-> EmptyDict,
                      differences_fatalities |-> EmptyDict,
                      subset |-> Unbound], tbl, unique_values)
    IN  IF ~l.subset.bound THEN Fail("UnboundLocalError")
        ELSE Ok([differences |-> l.differences,
                 differences_fatalities |-> l.differences_fatalities,
                 dates |-> Tail(Column(l.subset.value, "date")),
                 unique_values |-> unique_values])

(***************************************************************************)
(* plot_differences(unique_values, xaxis, yaxis)                           *)
(***************************************************************************)
\* plt.plot(x, y, label=label) on the current surface: pyplot refuses x and y
\* of different lengths with a ValueError, and adds a line otherwise.
plt_plot_unchecked(surf, x, y, label) ==
    Ok(Append(surf, [x |-> x, y |-> y, label |-> label]))

plt_plot(surf, x, y, label) ==
    IF Len(x) # Len(y) THEN Fail("ValueError")
    ELSE Ok(Append(surf, [x |-> x, y |-> y, label |-> label]))

\* One pass of the loop body, line 266; yaxis[value] is looked up before
\* plt.plot is entered.
plot_iteration_default(surf, xaxis, yaxis, value) ==
    IF value \notin DOMAIN yaxis THEN plt_plot(surf, xaxis, xaxis, value)
    ELSE plt_plot(surf, xaxis, yaxis[value], value)

plot_iteration(surf, xaxis, yaxis, value) ==
    IF value \notin DOMAIN yaxis THEN Fail("KeyError")
    ELSE plt_plot(surf, xaxis, yaxis[value], value)

(***************************************************************************)
(* Inputs of the grouped differencer: rows of (key, date) with two numeric *)
(* columns; the date of a row is its day number in the table.              *)
(***************************************************************************)
MaxFrameRows == 4

Keys == {"A", "B", "C"}

Measures == {<<10, 1>>, <<15, 3>>, <<13, 0>>}

FrameTables ==
    {[i \in 1..Len(rs) |->
         [key |-> rs[i][1], date |-> i, value |-> rs[i][2][1],
          fatalities |-> rs[i][2][2]]] :
        rs \in SeqsUpTo(Keys \X Measures, MaxFrameRows)}

(***************************************************************************)
(* The differencer and the plotter as a state machine: the table is        *)
(* differenced, and its outputs are passed straight to plot_differences.   *)
(***************************************************************************)
InitDiff ==
    /\ data \in FrameTables
    /\ call = NoCall
    /\ pc = "idle"
    /\ loc = NoLocals
    /\ ret = NoReturn
    /\ surface = <<>>

CallCalculateDifferences ==
    /\ pc = "idle"
    /\ call' = [fn |-> "calculate_differences", data |-> data]
    /\ loc' = NoLocals
    /\ pc' = "done"
    /\ LET r == calculate_differences(data)
       IN  ret' = IF r.ok THEN Returned(r.value) ELSE Raised(r.exc)
    /\ UNCHANGED <<data, surface>>

\* plot_differences(unique_values, dates, differences) or
\* plot_differences(unique_values, dates, differences_fatalities)
CallPlotPipeline(which) ==
    /\ pc = "done"
    /\ call.fn = "calculate_differences"
    /\ ret.kind = "value"
    /\ call' = [fn |-> "plot_differences",
                unique_values |-> ret.value.unique_values,
                xaxis |-> ret.value.dates,
                yaxis |-> ret.value[which],
                surface |-> surface]
    /\ loc' = [i |-> 1]
    /\ pc' = "running"
    /\ ret' = NoReturn
    /\ UNCHANGED <<data, surface>>

PlotIter ==
    /\ pc = "running"
    /\ call.fn = "plot_differences"
    /\ loc.i <= Len(call.unique_values)
    /\ LET r == plot_iteration(surface, call.xaxis, call.yaxis,
                               call.unique_values[loc.i])
       IN  IF r.ok
           THEN /\ surface' = r.value
                /\ loc' = [i |-> loc.i + 1]
                /\ pc' = pc
                /\ ret' = ret
           ELSE /\ surface' = surface
                /\ loc' = loc
                /\ pc' = "done"
                /\ ret' = Raised(r.exc)
    /\ UNCHANGED <<data, call>>

PlotReturn ==
    /\ pc = "running"
    /\ call.fn = "plot_differences"
    /\ loc.i > Len(call.unique_values)
    /\ pc' = "done"
    /\ ret' = Returned("None")
    /\ UNCHANGED <<data, call, loc, surface>>

NextDiff ==
    \/ CallCalculateDifferences
    \/ \E which \in {"differences", "differences_fatalities"} :
          CallPlotPipeline(which)
    \/ PlotIter
    \/ PlotReturn

SpecDiff == InitDiff /\ [][NextDiff]_vars

(***************************************************************************)
(* plot_differences called on its own, on a surface that may already hold  *)
(* series of earlier calls.                                                *)
(***************************************************************************)
MaxKeys == 2
MaxPrior == 1

PlotKeys == {"A", "B", "C"}

PlotAxes == {<<1>>, <<1, 2>>}

PlotSeries == {<<5>>, <<5, 0 - 2>>}

PlotMappings ==
    UNION {[ks -> PlotSeries] : ks \in SUBSET PlotKeys}

PriorSeries ==
    {[x |-> <<1>>, y |-> <<7>>, label |-> "A"],
     [x |-> <<1, 2>>, y |-> <<7, 8>>, label |-> "Z"]}

InitPlot ==
    /\ data = <<>>
    /\ call = NoCall
    /\ pc = "idle"
    /\ loc = NoLocals
    /\ ret = NoReturn
    /\ surface \in SeqsUpTo(PriorSeries, MaxPrior)

CallPlotDifferences(unique_values, xaxis, yaxis) ==
    /\ pc = "idle"
    /\ call' = [fn |-> "plot_differences",
                unique_values |-> unique_values,
                xaxis |-> xaxis,
                yaxis |-> yaxis,
                surface |-> surface]
    /\ loc' = [i |-> 1]
    /\ pc' = "running"
    /\ ret' = NoReturn
    /\ UNCHANGED <<data, surface>>

NextPlot ==
    \/ \E unique_values \in SeqsUpTo(PlotKeys, MaxKeys),
          xaxis \in PlotAxes, yaxis \in PlotMappings :
          CallPlotDifferences(unique_values, xaxis, yaxis)
    \/ PlotIter
    \/ PlotReturn

SpecPlot == InitPlot /\ [][NextPlot]_vars

(***************************************************************************)
(* find_word(dataframe, column, word): the rows whose text the pattern     *)
(* \b{word}s?\b is found in (Series.str.contains searches, it does not     *)
(* anchor).  \w is a letter, a digit or an underscore; of the characters   *)
(* of the model only the space is not.                                     *)
(***************************************************************************)
IsWordChar(c) == c # " "

\* \b between text[p] and text[p + 1]; outside the text there is no word
\* character.
Boundary(text, p) ==
    LET before == p >= 1 /\ IsWordChar(text[p])
        after == p + 1 <= Len(text) /\ IsWordChar(text[p + 1])
    IN  before # after

\* The pattern matches at position i: the word, then greedily an "s", then
\* a boundary; without the "s" when that fails.
match_at_no_plural(text, word, i) ==
    LET e == i + Len(word) - 1
    IN  /\ e <= Len(text)
        /\ SubSeq(text, i, e) = word
        /\ Boundary(text, i - 1)
        /\ Boundary(text, e)

match_at(text, word, i) ==
    LET e == i + Len(word) - 1
    IN  /\ e <= Len(text)
        /\ SubSeq(text, i, e) = word
        /\ Boundary(text, i - 1)
        /\ \/ e + 1 <= Len(text) /\ text[e + 1] = "s" /\ Boundary(text, e + 1)
           \/ Boundary(text, e)

str_contains(text, word) == \E i \in 1..Len(text) : match_at(text, word, i)

find_word(dataframe, word) ==
    SelectSeq(dataframe, LAMBDA row : str_contains(row.text, word))

(***************************************************************************)
(* Inputs of the word filter: every text of up to MaxTextLen characters    *)
(* over a small alphabet, and the three-row table of the documentation.    *)
(***************************************************************************)
MaxTextLen == 3
MaxTextRows == 1

Alphabet == {"a", "s", " "}

Texts == SeqsUpTo(Alphabet, MaxTextLen)

AsRows(ts) == [i \in 1..Len(ts) |-> [id |-> i, text |-> ts[i]]]

ExampleTable ==
    AsRows(<<<<"c", "a", "t", " ", "r", "u", "n", "s">>,
             <<"c", "a", "t", "s", " ", "j", "u", "m", "p">>,
             <<"d", "o", "g", " ", "b", "a", "r", "k", "s">>>>)

TextTables == {AsRows(ts) : ts \in SeqsUpTo(Texts, MaxTextRows)} \cup {ExampleTable}

SearchWords ==
    {<<"a">>, <<"s">>, <<"a", "s">>, <<"s", "a">>, <<"c", "a", "t">>}

InitWord ==
    /\ data \in TextTables
    /\ call = NoCall
    /\ pc = "idle"
    /\ loc = NoLocals
    /\ ret = NoReturn
    /\ surface = <<>>

CallFindWord(word) ==
    /\ pc = "idle"
    /\ call' = [fn |-> "find_word", dataframe |-> data, word |-> word]
    /\ loc' = NoLocals
    /\ pc' = "done"
    /\ ret' = Returned(find_word(data, word))
    /\ UNCHANGED <<data, surface>>

NextWord == \E word \in SearchWords : CallFindWord(word)

SpecWord == InitWord /\ [][NextWord]_vars

(***************************************************************************)
(* Properties of the date-window selector.                                 *)
(***************************************************************************)
\* The calendar's successor and predecessor of a date, without ordinals.
NextDay(dt) ==
    IF dt.day < DaysInMonth(dt.year, dt.month)
    THEN Date(dt.year, dt.month, dt.day + 1)
    ELSE IF dt.month < 12 THEN Date(dt.year, dt.month + 1, 1)
    ELSE Date(dt.year + 1, 1, 1)

PrevDay(dt) ==
    IF dt.day > 1 THEN Date(dt.year, dt.month, dt.day - 1)
    ELSE IF dt.month > 1
    THEN Date(dt.year, dt.month - 1, DaysInMonth(dt.year, dt.month - 1))
    ELSE Date(dt.year - 1, 12, 31)

RECURSIVE StepDays(_, _)
StepDays(dt, k) ==
    IF k = 0 THEN dt
    ELSE IF k > 0 THEN StepDays(NextDay(dt), k - 1)
    ELSE StepDays(PrevDay(dt), k + 1)

GdrDone == pc = "done" /\ call.fn = "get_date_range"

GmeDone == pc = "done" /\ call.fn = "get_matching_entries"

WellFormed(date_str) == Strptime(date_str).ok

\* The date lies among the 7 days that start `days` days before ref.
InWindow(dt, ref, days) ==
    LET k == ToOrdinal(dt) - (ToOrdinal(ref) - days)
    IN  0 <= k /\ k <= 6

RowsInWindow(tbl, date_str, days) ==
    SelectSeq(tbl, LAMBDA row : InWindow(row.date, Strptime(date_str).value, days))

RECURSIVE ConcatSelections(_, _, _)
ConcatSelections(strs, tbl, days) ==
    IF strs = <<>> THEN <<>>
    ELSE ConcatSelections(SubSeq(strs, 1, Len(strs) - 1), tbl, days)
             \o RowsInWindow(tbl, strs[Len(strs)], days)

Occurrences(s, x) == Cardinality({i \in 1..Len(s) : s[i] = x})

TableKeys(tbl) == {tbl[i].key : i \in 1..Len(tbl)}

GroupPositions(tbl, g) == {i \in 1..Len(tbl) : tbl[i].key = g}

GroupSize(tbl, g) == Cardinality(GroupPositions(tbl, g))

\* The position in the table of the j-th row of group g.
NthPosition(tbl, g, j) ==
    CHOOSE p \in GroupPositions(tbl, g) :
        Cardinality({q \in GroupPositions(tbl, g) : q < p}) = j - 1

FirstPosition(tbl, g) == NthPosition(tbl, g, 1)

\* The last distinct key in first-occurrence order.
LastGroup(tbl) ==
    CHOOSE g \in TableKeys(tbl) :
        \A h \in TableKeys(tbl) : FirstPosition(tbl, h) <= FirstPosition(tbl, g)

MappingOf(col) ==
    IF col = "value" THEN "differences" ELSE "differences_fatalities"

CdDone == pc = "done" /\ call.fn = "calculate_differences"

\* C3: a key whose group has k >= 2 rows is mapped, in both mappings, to a
\* sequence of length k-1 whose element i is column[i+1] - column[i] over
\* the group's rows in table order, rows of other groups in between or not.
C3_GroupFirstDifferences ==
    CdDone =>
        \A g \in TableKeys(data) :
            GroupSize(data, g) >= 2 =>
                /\ ret.kind = "value"
                /\ \A col \in {"value", "fatalities"} :
                      /\ g \in DOMAIN ret.value[MappingOf(col)]
                      /\ Len(ret.value[MappingOf(col)][g]) = GroupSize(data, g) - 1
                      /\ \A i \in 1..(GroupSize(data, g) - 1) :
                            ret.value[MappingOf(col)][g][i] =
                                data[NthPosition(data, g, i + 1)][col]
                                    - data[NthPosition(data, g, i)][col]

\* A group of three rows with a row of another group between them.
C3_Witness ==
    /\ CdDone
    /\ \E g \in TableKeys(data) :
          /\ GroupSize(data, g) = 3
          /\ NthPosition(data, g, 3) - NthPosition(data, g, 1) = 3
          /\ ret.value.differences[g] = <<5, 0 - 2>>

\* C4: on every table the call completes without raising, and every group
\* with fewer than 2 rows is mapped to an empty difference sequence.
C4_TotalOverPartitions ==
    CdDone =>
        /\ ret.kind = "value"
        /\ \A g \in TableKeys(data) :
              GroupSize(data, g) < 2 =>
                  /\ ret.value.differences[g] = <<>>
                  /\ ret.value.differences_fatalities[g] = <<>>

\* C5: the returned date axis is the dates of the last group processed
\* without the first of them, so one shorter than that group, whatever the
\* other groups hold.
C5_DatesOfLastGroup ==
    (CdDone /\ data # <<>>) =>
        /\ ret.kind = "value"
        /\ Len(ret.value.dates) = GroupSize(data, LastGroup(data)) - 1
        /\ \A j \in 1..Len(ret.value.dates) :
              ret.value.dates[j] =
                  data[NthPosition(data, LastGroup(data), j + 1)].date

\* Three groups; the last one has two rows, the others one row each.
C5_Witness ==
    /\ CdDone
    /\ ret.kind = "value"
    /\ Len(ret.value.dates) = 1
    /\ Cardinality(TableKeys(data)) = 3
    /\ GroupSize(data, LastGroup(data)) = 2

\* C7: the call returns the distinct keys in first-occurrence order, none
\* repeated, and both mappings have exactly the table's keys as their keys.
C7_KeysOfTheTable ==
    CdDone =>
        /\ ret.kind = "value"
        /\ Range(ret.value.unique_values) = TableKeys(data)
        /\ \A i, j \in 1..Len(ret.value.unique_values) :
              i < j => FirstPosition(data, ret.value.unique_values[i])
                           < FirstPosition(data, ret.value.unique_values[j])
        /\ DOMAIN ret.value.differences = TableKeys(data)
        /\ DOMAIN ret.value.differences_fatalities = TableKeys(data)

(***************************************************************************)
(* Properties of the plotter.                                              *)
(***************************************************************************)
PlotDone == pc = "done" /\ call.fn = "plot_differences"

\* What the call has added to the surface it found.
Drawn == SubSeq(surface, Len(call.surface) + 1, Len(surface))

Series(i) ==
    [x |-> call.xaxis, y |-> call.yaxis[call.unique_values[i]],
     label |-> call.unique_values[i]]

Missing(i) == call.unique_values[i] \notin DOMAIN call.yaxis

Mismatch(i) ==
    /\ ~Missing(i)
    /\ Len(call.yaxis[call.unique_values[i]]) # Len(call.xaxis)

Least(S) == CHOOSE i \in S : \A j \in S : i <= j

\* The draw commands the call has issued: the series it added, and the one
\* the plotting library refused, if it refused one.
Issued ==
    IF ret = Raised("ValueError") THEN Append(Drawn, Series(loc.i)) ELSE Drawn

\* C8 as stated: one draw command per listed key, in order; a key missing
\* from the mapping is the only failure, a lookup error after the preceding
\* series were drawn.
C8_AsStated ==
    PlotDone =>
        LET missing == {i \in 1..Len(call.unique_values) : Missing(i)}
        IN  /\ SubSeq(surface, 1, Len(call.surface)) = call.surface
            /\ IF missing = {}
               THEN Issued = [i \in 1..Len(call.unique_values) |-> Series(i)]
               ELSE /\ ret = Raised("KeyError")
                    /\ Drawn = [i \in 1..(Least(missing) - 1) |-> Series(i)]

\* C8 amended: the listed keys are drawn one by one, in order, each with the
\* shared x-axis, its own y-sequence and its key as label, up to the first
\* key that is missing from the mapping (a KeyError) or whose y-sequence is
\* not as long as the x-axis (the ValueError of the plotting library); the
\* series before that key stay on the surface, nothing else is drawn, and
\* without such a key the call draws every listed key and returns.
C8_DrawsUntilFirstFailure ==
    PlotDone =>
        LET failing == {i \in 1..Len(call.unique_values) :
                           Missing(i) \/ Mismatch(i)}
        IN  /\ SubSeq(surface, 1, Len(call.surface)) = call.surface
            /\ IF failing = {}
               THEN /\ ret = Returned("None")
                    /\ Drawn = [i \in 1..Len(call.unique_values) |-> Series(i)]
               ELSE /\ ret = Raised(IF Missing(Least(failing))
                                    THEN "KeyError" ELSE "ValueError")
                    /\ Drawn = [i \in 1..(Least(failing) - 1) |-> Series(i)]

\* The second listed key is missing, the first was drawn next to an earlier
\* series, and the mapping holds a key that is not listed.
C8_Witness ==
    /\ PlotDone
    /\ ret = Raised("KeyError")
    /\ loc.i = 2
    /\ call.surface # <<>>
    /\ Len(surface) = Len(call.surface) + 1
    /\ DOMAIN call.yaxis \ Range(call.unique_values) # {}

SameSizeAsLast(g) == GroupSize(data, g) = GroupSize(data, LastGroup(data))

\* C10: with the outputs of calculate_differences passed to
\* plot_differences, the x-axis is as long as a group's y-sequence exactly
\* when the group has as many rows as the last group; every series is drawn
\* exactly when all groups have the same number of rows, and otherwise the
\* call stops at the first listed key whose group size differs from the last.
C10_PipelineLengths ==
    (call.fn = "plot_differences") =>
        /\ \A i \in 1..Len(call.unique_values) :
              (Len(call.xaxis) = Len(call.yaxis[call.unique_values[i]]))
                  <=> SameSizeAsLast(call.unique_values[i])
        /\ pc = "done" =>
              LET differing == {i \in 1..Len(call.unique_values) :
                                   ~SameSizeAsLast(call.unique_values[i])}
                  equal == \A g, h \in TableKeys(data) :
                               GroupSize(data, g) = GroupSize(data, h)
              IN  /\ (ret.kind = "value") <=> equal
                  /\ equal => Len(Drawn) = Cardinality(TableKeys(data))
                  /\ ~equal =>
                        /\ ret = Raised("ValueError")
                        /\ loc.i = Least(differing)
                        /\ Len(Drawn) = Least(differing) - 1

\* Three groups of 1, 2 and 1 rows: the first series is drawn, the second
\* is the mismatch.
C10_Witness ==
    /\ PlotDone
    /\ Len(call.unique_values) = 3
    /\ ret = Raised("ValueError")
    /\ loc.i = 2
    /\ Len(surface) = 1

(***************************************************************************)
(* Properties of the word filter.                                          *)
(***************************************************************************)
\* The words of a text: its maximal runs of word characters.
WordsOf(text) ==
    {SubSeq(text, i, j) : <<i, j>> \in
        {p \in (1..Len(text)) \X (1..Len(text)) :
            /\ p[1] <= p[2]
            /\ \A k \in p[1]..p[2] : IsWordChar(text[k])
            /\ (p[1] = 1 \/ ~IsWordChar(text[p[1] - 1]))
            /\ (p[2] = Len(text) \/ ~IsWordChar(text[p[2] + 1]))}}

HasWordOrPlural(text, w) ==
    w \in WordsOf(text) \/ Append(w, "s") \in WordsOf(text)

FwDone == pc = "done" /\ call.fn = "find_word"

\* C9: find_word returns, in table order, exactly the rows whose text has w
\* or w followed by one "s" as a whole word; a row where w is only part of a
\* longer word other than w+"s" is left out.
C9_WholeWordOrPlural ==
    FwDone =>
        ret = Returned(SelectSeq(data,
                           LAMBDA row : HasWordOrPlural(row.text, call.word)))

\* The table of the documentation with the word "cat": the rows "cat runs"
\* and "cats jump" are returned, in that order, and "dog barks" is not.
C9_Witness ==
    /\ FwDone
    /\ data = ExampleTable
    /\ call.word = <<"c", "a", "t">>
    /\ ret.value = <<ExampleTable[1], ExampleTable[2]>>

====
